---------------------------- MODULE Spec2Model ----------------------------
(***************************************************************************)
(* A model of xpath-builder: the string utilities (utils.py), the          *)
(* comparator / attribute / set predicate builders, Pred, Path and Node    *)
(* (core.py), the shortcut constants (shortcuts.py) and the example        *)
(* selectors (examples/).                                                  *)
(*                                                                         *)
(* Python str values are TLA+ strings (sequences of characters): Len, \o   *)
(* and SubSeq are the sequence operators on them.                          *)
(***************************************************************************)
EXTENDS Integers, Sequences, FiniteSets, TLC

\* The field names of the model's records.  TLC keeps a record's fields in the
\* order in which their names first occur in the module: every record below is
\* written in this order.
FieldNames ==
    [args : {}, ci : {}, cls : {}, consulted : {}, elementpath : {}, expr : {},
     fl : {}, fn : {}, frags : {}, k : {}, lhs : {}, lxml : {}, make_one : {}, msg : {},
     name : {}, next : {}, ok : {}, op : {}, raised : {}, recv : {}, start : {}, tenths : {},
     test : {}, to_lit : {}, val : {}]

VARIABLES
    s, q,                         \* quote: the argument and the returned literal
    elementpath_available,        \* utils.py module state, set at import
    lxml_available,
    accepts,                      \* per engine, the expressions it parses
    expr, raised, consulted,      \* validate_xpath: argument, outcome, engines called
    cur, call, err,               \* one builder chain: current object, last call, error
    heap, hist,                   \* composition: every object created so far
    pc                            \* "start", or "done" once a utility call returned

quoteVars    == <<s, q>>
validateVars == <<elementpath_available, lxml_available, accepts, expr, raised, consulted>>
buildVars    == <<cur, call, err>>
composeVars  == <<heap, hist>>
vars         == <<quoteVars, validateVars, buildVars, composeVars, pc>>

---------------------------------------------------------------------------
(* Bounds of the exploration *)

MaxLen  == 4      \* longest argument of quote
MaxArgs == 2      \* longest variadic argument list
MaxOps  == 3      \* most objects one caller composes

---------------------------------------------------------------------------
(* Python str operations *)

Char(str, i) == SubSeq(str, i, i)

\* c in str, for a one-character c
HasChar(str, c) == \E i \in 1..Len(str) : Char(str, i) = c

\* sep.join(parts)
RECURSIVE Join(_, _)
Join(parts, sep) ==
    IF Len(parts) = 0 THEN ""
    ELSE IF Len(parts) = 1 THEN parts[1]
    ELSE parts[1] \o sep \o Join(Tail(parts), sep)

\* str.split(c), for a one-character c: the pieces between the occurrences of c
RECURSIVE SplitFrom(_, _, _, _)
SplitFrom(str, c, i, piece) ==
    IF i > Len(str) THEN <<piece>>
    ELSE IF Char(str, i) = c THEN <<piece>> \o SplitFrom(str, c, i + 1, "")
    ELSE SplitFrom(str, c, i + 1, piece \o Char(str, i))

Split(str, c) == SplitFrom(str, c, 1, "")

UpperCase == "ABCDEFGHIJKLMNOPQRSTUVWXYZ"
LowerCase == "abcdefghijklmnopqrstuvwxyz"

LowerChar(c) ==
    IF \E i \in 1..Len(UpperCase) : Char(UpperCase, i) = c
    THEN Char(LowerCase, CHOOSE i \in 1..Len(UpperCase) : Char(UpperCase, i) = c)
    ELSE c

\* str.lower()
RECURSIVE Lower(_)
Lower(str) ==
    IF Len(str) = 0 THEN ""
    ELSE LowerChar(Char(str, 1)) \o Lower(SubSeq(str, 2, Len(str)))

Digits == "0123456789"

RECURSIVE NatToStr(_)
NatToStr(n) ==
    IF n < 10 THEN Char(Digits, n + 1)
    ELSE NatToStr(n \div 10) \o Char(Digits, (n % 10) + 1)

\* str(n) for an int n
IntToStr(n) == IF n < 0 THEN "-" \o NatToStr(-n) ELSE NatToStr(n)

---------------------------------------------------------------------------
(* utils.py *)

SQ == "'"
DQ == "\""

quote(str) ==
    IF ~HasChar(str, SQ) THEN SQ \o str \o SQ
    ELSE IF ~HasChar(str, DQ) THEN DQ \o str \o DQ
    ELSE LET chunks == Split(str, SQ)
             parts  == [i \in 1..Len(chunks) |-> DQ \o chunks[i] \o DQ]
             glued  == Join(parts, "," \o SQ \o DQ \o SQ \o ",")
         IN  "concat(" \o glued \o ")"

specials == ".^$|?*+()[]{}\\-\\\\"

RECURSIVE re_escape_xsd(_)
re_escape_xsd(lit) ==
    IF Len(lit) = 0 THEN ""
    ELSE LET ch == Char(lit, 1)
         IN  (IF HasChar(specials, ch) THEN "\\" \o ch ELSE ch)
                 \o re_escape_xsd(SubSeq(lit, 2, Len(lit)))

\* validate_xpath with the first engine's failure swallowed: it falls through to
\* the second engine instead of raising.
validate_xpath_fallthrough(e) ==
    IF elementpath_available /\ e \in accepts.elementpath
    THEN [consulted |-> {"elementpath"}, raised |-> "none"]
    ELSE IF lxml_available
    THEN [consulted |-> (IF elementpath_available THEN {"elementpath"} ELSE {})
                            \cup {"lxml"},
          raised |-> IF e \in accepts.lxml THEN "none" ELSE "SyntaxError"]
    ELSE [consulted |-> IF elementpath_available THEN {"elementpath"} ELSE {},
          raised |-> "none"]

\* validate_xpath(expr): what it raises and which engines it calls.  An engine's
\* verdict on an expression is the engine's own: accepts[engine] is the set of
\* expressions it parses.
validate_xpath(e) ==
    IF elementpath_available
    THEN [consulted |-> {"elementpath"},
          raised |-> IF e \in accepts.elementpath THEN "none" ELSE "SyntaxError"]
    ELSE IF lxml_available
    THEN [consulted |-> {"lxml"},
          raised |-> IF e \in accepts.lxml THEN "none" ELSE "SyntaxError"]
    ELSE [consulted |-> {}, raised |-> "none"]

---------------------------------------------------------------------------
(* core.py: the value types.  Every class is a frozen dataclass: a record. *)

Pred(e) == [cls |-> "Pred", expr |-> e]
Path(e) == [cls |-> "Path", expr |-> e]
Node(t) == [cls |-> "Node", test |-> t]
Ops(lhs, to_lit) == [cls |-> "Ops", lhs |-> lhs, to_lit |-> to_lit]
SetBuilder(make_one) == [cls |-> "_SetBuilder", make_one |-> make_one]
AttrOps(name, ci) == [ci |-> ci, cls |-> "_AttrOps", name |-> name]
AttrNameOps(ci) == [ci |-> ci, cls |-> "_AttrNameOps"]
ValueError(msg) == [cls |-> "ValueError", msg |-> msg]

\* Pred.compile, Path.compile, Node.compile
compile(v) == IF v.cls = "Node" THEN v.test ELSE v.expr

Pred_and(self, other) == Pred("(" \o self.expr \o ") and (" \o other.expr \o ")")
Pred_or(self, other)  == Pred("(" \o self.expr \o ") or (" \o other.expr \o ")")
Pred_neg(self)        == Pred("not(" \o self.expr \o ")")

---------------------------------------------------------------------------
(* core.py: Ops, the comparator builder.  to_lit is a closure: a record    *)
(* naming the factory's inner function and the variables it captured.      *)

FloatStr(t) ==
    LET a == IF t < 0 THEN -t ELSE t
    IN  (IF t < 0 THEN "-" ELSE "") \o NatToStr(a \div 10) \o "."
            \o Char(Digits, (a % 10) + 1)

\* A float: NaN, an infinity, or tenths/10.
NaN      == [k |-> "nan"]
PosInf   == [k |-> "inf"]
NegInf   == [k |-> "-inf"]
Float(t) == [k |-> "float", tenths |-> t]

to_lit(f, v) ==
    CASE f.fn = "attr_str"     -> quote(IF f.ci THEN Lower(v) ELSE v)
      [] f.fn = "string_value" -> quote(IF f.ci THEN Lower(v) ELSE v)
      [] f.fn = "attr_num"     ->
            IF v.k = "nan" THEN "NaN"
            ELSE IF v.k = "inf" THEN "Infinity"
            ELSE IF v.k = "-inf" THEN "-Infinity"
            ELSE FloatStr(v.tenths)
      [] f.fn = "position_ops" -> IntToStr(v)
      [] f.fn = "bool_expr"    -> IF v THEN "true()" ELSE "false()"

Comparators == {"=", "!=", "<", "<=", ">", ">="}

\* Ops.cmp without the operator check
Ops_cmp_unchecked(self, op, value) ==
    Pred(self.lhs \o " " \o op \o " " \o to_lit(self.to_lit, value))

Ops_cmp(self, op, value) ==
    IF op \notin Comparators
    THEN ValueError("Invalid comparator")
    ELSE Pred(self.lhs \o " " \o op \o " " \o to_lit(self.to_lit, value))

Ops_eq(self, value) == Ops_cmp(self, "=", value)
Ops_ne(self, value) == Ops_cmp(self, "!=", value)
Ops_lt(self, value) == Ops_cmp(self, "<", value)
Ops_le(self, value) == Ops_cmp(self, "<=", value)
Ops_gt(self, value) == Ops_cmp(self, ">", value)
Ops_ge(self, value) == Ops_cmp(self, ">=", value)

Ops_between(self, lo, hi, inclusive) ==
    LET lop == IF inclusive[1] THEN ">=" ELSE ">"
        hip == IF inclusive[2] THEN "<=" ELSE "<"
    IN  Pred("(" \o self.lhs \o " " \o lop \o " " \o to_lit(self.to_lit, lo)
             \o ") and (" \o self.lhs \o " " \o hip \o " "
             \o to_lit(self.to_lit, hi) \o ")")

Ops_in_(self, values) ==
    IF Len(values) = 0 THEN Pred("false()")
    ELSE LET lits == [i \in 1..Len(values) |-> to_lit(self.to_lit, values[i])]
             seq  == "(" \o Join(lits, ", ") \o ")"
         IN  Pred(self.lhs \o " = " \o seq)

Ops_not_in(self, values) == Pred_neg(Ops_in_(self, values))

attr_str(name, ci) ==
    Ops(IF ci THEN "lower-case(@" \o name \o ")" ELSE "@" \o name,
        [ci |-> ci, fn |-> "attr_str"])

attr_num(name) == Ops("number(@" \o name \o ")", [fn |-> "attr_num"])

position_ops == Ops("position()", [fn |-> "position_ops"])

bool_expr(e) == Ops(e, [fn |-> "bool_expr"])

string_value(ci) ==
    Ops(IF ci THEN "lower-case(string(.))" ELSE "string(.)",
        [ci |-> ci, fn |-> "string_value"])

---------------------------------------------------------------------------
(* core.py: _SetBuilder.  make_one is a closure: a record naming the inner *)
(* function `one` of the property that built it, with what it captured.    *)

lname(ci, var) ==
    IF ci THEN "lower-case(local-name(" \o var \o "))"
    ELSE "local-name(" \o var \o ")"

make_one(f, tok) ==
    CASE f.fn = "_AttrOps.contains" ->
            LET base   == IF f.ci THEN "lower-case(@" \o f.name \o ")" ELSE "@" \o f.name
                needle == IF f.ci THEN Lower(tok) ELSE tok
            IN  "contains(" \o base \o ", " \o quote(needle) \o ")"
      [] f.fn = "_AttrOps.contains_tokens" ->
            LET src   == "concat(' ', normalize-space(@" \o f.name \o "), ' ')"
                flags == IF f.ci THEN ", 'i'" ELSE ""
                pat   == "\\s" \o re_escape_xsd(tok) \o "\\s"
            IN  "matches(" \o src \o ", " \o quote(pat) \o flags \o ")"
      [] f.fn = "_AttrOps.startswith" ->
            LET left  == IF f.ci THEN "lower-case(@" \o f.name \o ")" ELSE "@" \o f.name
                right == quote(IF f.ci THEN Lower(tok) ELSE tok)
            IN  "starts-with(" \o left \o ", " \o right \o ")"
      [] f.fn = "_AttrOps.endswith" ->
            LET left  == IF f.ci THEN "lower-case(@" \o f.name \o ")" ELSE "@" \o f.name
                right == quote(IF f.ci THEN Lower(tok) ELSE tok)
            IN  "ends-with(" \o left \o ", " \o right \o ")"
      [] f.fn = "_AttrOps.matches" ->
            "matches(@" \o f.name \o ", " \o quote(tok) \o f.fl \o ")"
      [] f.fn = "_AttrNameOps.contains" ->
            LET x      == lname(f.ci, "$a")
                needle == IF f.ci THEN Lower(tok) ELSE tok
            IN  "some $a in @* satisfies contains(" \o x \o ", " \o quote(needle) \o ")"
      [] f.fn = "_AttrNameOps.equals" ->
            LET x      == lname(f.ci, "$a")
                target == IF f.ci THEN Lower(tok) ELSE tok
            IN  "some $a in @* satisfies " \o x \o " = " \o quote(target)
      [] f.fn = "_AttrNameOps.startswith" ->
            LET x == lname(f.ci, "$a")
            IN  "some $a in @* satisfies starts-with(" \o x \o ", "
                    \o quote(IF f.ci THEN Lower(tok) ELSE tok) \o ")"
      [] f.fn = "_AttrNameOps.endswith" ->
            LET x == lname(f.ci, "$a")
            IN  "some $a in @* satisfies ends-with(" \o x \o ", "
                    \o quote(IF f.ci THEN Lower(tok) ELSE tok) \o ")"
      [] f.fn = "_AttrNameOps.matches" ->
            LET lhs == IF f.ci THEN "lower-case(local-name($a))" ELSE "local-name($a)"
            IN  "some $a in @* satisfies matches(" \o lhs \o ", " \o quote(tok)
                    \o f.fl \o ")"

\* _SetBuilder.any_of joining with all_of's separator
SetBuilder_any_of_and(self, tokens) ==
    IF Len(tokens) = 0 THEN Pred("false()")
    ELSE LET parts == [i \in 1..Len(tokens) |-> make_one(self.make_one, tokens[i])]
         IN  Pred(Join(parts, " and "))

SetBuilder_any_of(self, tokens) ==
    IF Len(tokens) = 0 THEN Pred("false()")
    ELSE LET parts == [i \in 1..Len(tokens) |-> make_one(self.make_one, tokens[i])]
         IN  Pred(Join(parts, " or "))

SetBuilder_all_of(self, tokens) ==
    IF Len(tokens) = 0 THEN Pred("true()")
    ELSE LET parts == [i \in 1..Len(tokens) |-> make_one(self.make_one, tokens[i])]
         IN  Pred(Join(parts, " and "))

\* _SetBuilder.none_of without the empty-argument case
SetBuilder_none_of_unguarded(self, tokens) ==
    Pred_neg(SetBuilder_any_of(self, tokens))

SetBuilder_none_of(self, tokens) ==
    IF Len(tokens) = 0 THEN Pred("true()")
    ELSE Pred_neg(SetBuilder_any_of(self, tokens))

seq_literal_strs(items) ==
    "(" \o Join([i \in 1..Len(items) |-> quote(items[i])], ", ") \o ")"

---------------------------------------------------------------------------
(* core.py: _AttrNameOps *)

AttrNameOps_contains(self) ==
    SetBuilder([ci |-> self.ci, fn |-> "_AttrNameOps.contains"])
AttrNameOps_equals(self) ==
    SetBuilder([ci |-> self.ci, fn |-> "_AttrNameOps.equals"])
AttrNameOps_startswith(self) ==
    SetBuilder([ci |-> self.ci, fn |-> "_AttrNameOps.startswith"])
AttrNameOps_endswith(self) ==
    SetBuilder([ci |-> self.ci, fn |-> "_AttrNameOps.endswith"])
AttrNameOps_matches(self, flags) ==
    SetBuilder([ci |-> self.ci,
                fl |-> IF flags # "" THEN ", " \o quote(flags) ELSE "",
                fn |-> "_AttrNameOps.matches"])

AttrNameOps_any_of(self, names) ==
    SetBuilder_any_of(AttrNameOps_equals(self), names)

AttrNameOps_all_of(self, names) ==
    IF Len(names) = 0 THEN Pred("true()")
    ELSE LET seq == seq_literal_strs(
                        [i \in 1..Len(names) |->
                            IF self.ci THEN Lower(names[i]) ELSE names[i]])
             x   == IF self.ci THEN "lower-case(local-name($a))" ELSE "local-name($a)"
         IN  Pred("every $n in " \o seq \o " satisfies some $a in @* satisfies "
                  \o x \o " = $n")

AttrNameOps_none_of(self, names) ==
    IF Len(names) = 0 THEN Pred("true()")
    ELSE Pred_neg(AttrNameOps_any_of(self, names))

---------------------------------------------------------------------------
(* core.py: _AttrOps *)

AttrOps_contains(self) ==
    SetBuilder([ci |-> self.ci, fn |-> "_AttrOps.contains", name |-> self.name])
AttrOps_contains_tokens(self) ==
    SetBuilder([ci |-> self.ci, fn |-> "_AttrOps.contains_tokens", name |-> self.name])
AttrOps_startswith(self) ==
    SetBuilder([ci |-> self.ci, fn |-> "_AttrOps.startswith", name |-> self.name])
AttrOps_endswith(self) ==
    SetBuilder([ci |-> self.ci, fn |-> "_AttrOps.endswith", name |-> self.name])
AttrOps_matches(self, flags) ==
    SetBuilder([fl |-> IF flags # "" THEN ", " \o quote(flags) ELSE "",
                fn |-> "_AttrOps.matches",
                name |-> self.name])

AttrOps_none_of(self, tokens) ==
    SetBuilder_none_of(AttrOps_contains_tokens(self), tokens)

\* _AttrOps.has_name without the wildcard check
AttrOps_has_name_unchecked(self) == AttrNameOps(self.ci)

AttrOps_has_name(self) ==
    IF self.name # "*"
    THEN ValueError("attr(name).has_name is only meaningful for attr('*')")
    ELSE AttrNameOps(self.ci)

AttrOps_missing(self) == Pred("not(@" \o self.name \o ")")
AttrOps_exists(self)  == Pred("@" \o self.name)
AttrOps_as_str(self)  == attr_str(self.name, self.ci)
AttrOps_as_num(self)  == attr_num(self.name)

---------------------------------------------------------------------------
(* core.py: Pred's static constructors *)

Pred_attr(name, case_insensitive) == AttrOps(name, case_insensitive)

\* Pred.attr_has_token passing the i flag whatever case_insensitive is
Pred_attr_has_token_always_i(attr, token, case_insensitive) ==
    LET src   == "concat(' ', normalize-space(@" \o attr \o "), ' ')"
        pat   == "\\s" \o token \o "\\s"
    IN  Pred("matches(" \o src \o ", " \o quote(pat) \o ", " \o quote("i") \o ")")

Pred_attr_has_token(attr, token, case_insensitive) ==
    LET src   == "concat(' ', normalize-space(@" \o attr \o "), ' ')"
        pat   == "\\s" \o token \o "\\s"
        flags == IF case_insensitive THEN "i" ELSE ""
    IN  Pred("matches(" \o src \o ", " \o quote(pat)
             \o (IF flags # "" THEN ", " \o quote(flags) ELSE "") \o ")")

Pred_text_contains(needle, normalized, case_insensitive) ==
    LET base == IF normalized THEN "normalize-space()" ELSE "string(.)"
    IN  IF case_insensitive
        THEN Pred("contains(lower-case(" \o base \o "), lower-case("
                  \o quote(needle) \o "))")
        ELSE Pred("contains(" \o base \o ", " \o quote(needle) \o ")")

Pred_text_matches(pattern, flags) ==
    LET flags_arg == IF flags # "" THEN ", " \o quote(flags) ELSE ""
    IN  Pred("matches(string(.), " \o quote(pattern) \o flags_arg \o ")")

Pred_union(preds) ==
    IF Len(preds) = 0 THEN Pred("false()")
    ELSE Pred(Join([i \in 1..Len(preds) |-> "(" \o compile(preds[i]) \o ")"], " or "))

---------------------------------------------------------------------------
(* core.py: Path and Node *)

Path_neg(self) == Pred("not(" \o self.expr \o ")")

\* a filter that leaves its predicate open
Path_where_unclosed(self, pred) == Path(self.expr \o "[" \o compile(pred))

Path_where(self, pred) == Path(self.expr \o "[" \o compile(pred) \o "]")

Path_child(self, node) == Path(self.expr \o "/" \o compile(node))

\* a descendant step written with the child axis
Path_desc_as_child(self, node) == Path(self.expr \o "/" \o compile(node))

Path_desc(self, node) == Path(self.expr \o "//" \o compile(node))

Path_curr_desc(self) == Path(".//" \o self.expr)

Path_nth(self, n) == Path_where(self, Ops_eq(position_ops, n))

Path_first(self) == Path_nth(self, 1)

Path_validate(self) == validate_xpath(self.expr)

Path_union(paths) ==
    IF Len(paths) = 0 THEN Path("false()")
    ELSE Path(Join([i \in 1..Len(paths) |-> "(" \o compile(paths[i]) \o ")"], " | "))

Node_or(self, other) == Path(self.test \o " | " \o other.test)

Node_any(self) == Path("//" \o self.test)

Node_root(self) == Path("/" \o self.test)

Node_where(self, pred) == Path_where(Path(self.test), pred)

Node_child(self, other) == Path_child(Path(self.test), other)

Node_desc(self, other) == Path_desc(Path(self.test), other)

Node_curr_desc(self) == Path_curr_desc(Path(self.test))

---------------------------------------------------------------------------
(* shortcuts.py *)

E(tag) == Node(tag)

ATTR(name) == Node("@" \o name)

COMMENT == Node("comment()")
TEXT    == Node("text()")
NODE    == Node("node()")
STAR    == Node("*")

---------------------------------------------------------------------------
(* examples/ *)

ad_class_selector ==
    Path_where(Node_any(STAR),
        SetBuilder_any_of(AttrOps_contains(Pred_attr("class", FALSE)),
            <<"ads", "ad", "advert", "advertisement", "sponsored", "promo",
              "affiliate", "tracking", "analytics">>))

empty_svg_selector ==
    Path_where(Node_any(E("svg")),
        Pred_or(Pred_or(Pred_or(
            Ops_eq(AttrOps_as_str(Pred_attr("width", FALSE)), "0"),
            Ops_eq(AttrOps_as_str(Pred_attr("height", FALSE)), "0")),
            Ops_eq(AttrOps_as_str(Pred_attr("aria-hidden", FALSE)), "true")),
            AttrOps_missing(Pred_attr("role", FALSE))))

id_str_selector ==
    Path_where(Node_any(STAR),
        SetBuilder_any_of(AttrOps_startswith(Pred_attr("id", FALSE)),
            <<"vue-", "angular-", "svelte-", "lit-", "astro-", "preact-", "solid-">>))

---------------------------------------------------------------------------
(* Initial values of the parts of the state a specification does not use *)

NoObject == [cls |-> "None"]
NoCall   == [op |-> "none"]

QuoteIdle == s = "" /\ q = ""

ValidateIdle ==
    /\ elementpath_available = FALSE
    /\ lxml_available = FALSE
    /\ accepts = [elementpath |-> {}, lxml |-> {}]
    /\ expr = ""
    /\ raised = "none"
    /\ consulted = {}

BuildIdle == cur = NoObject /\ call = NoCall /\ err = "none"

\* shortcuts.py's module-level constants, shared by every caller
Shared == <<COMMENT, TEXT, NODE, STAR>>

\* hist[i] is how heap[i] came to be: the text a chain of where / child / desc /
\* nth / first calls started from, and the fragment each call of the chain added
Origin(text) == [frags |-> <<>>, start |-> text]

ComposeIdle ==
    /\ heap = Shared
    /\ hist = [i \in 1..Len(Shared) |-> Origin(compile(Shared[i]))]

---------------------------------------------------------------------------
(* SpecQuote: quote applied to every string over QuoteAlphabet up to MaxLen *)

QuoteAlphabet == {"a", SQ, DQ}

RECURSIVE Strs(_, _)
Strs(A, n) ==
    IF n = 0 THEN {""}
    ELSE LET P == Strs(A, n - 1) IN P \cup {x \o c : x \in P, c \in A}

InitQuote ==
    /\ s \in Strs(QuoteAlphabet, MaxLen)
    /\ q = ""
    /\ pc = "start"
    /\ ValidateIdle /\ BuildIdle /\ ComposeIdle

Quote ==
    /\ pc = "start"
    /\ q' = quote(s)
    /\ pc' = "done"
    /\ UNCHANGED <<s, validateVars, buildVars, composeVars>>

NextQuote == Quote

SpecQuote == InitQuote /\ [][NextQuote]_vars

---------------------------------------------------------------------------
(* SpecValidate: validate_xpath and Path.validate under every combination  *)
(* of installed engines and of the engines' verdicts                       *)

WellFormed10 == compile(Path_where(Node_any(E("div")), AttrOps_exists(Pred_attr("id", FALSE))))
WellFormed20 ==
    compile(Path_where(Node_any(STAR),
        AttrNameOps_all_of(AttrOps_has_name(Pred_attr("*", FALSE)), <<"id">>)))
Malformed    == "//div[@id"

Exprs == {WellFormed10, WellFormed20, Malformed}

InitValidate ==
    /\ elementpath_available \in BOOLEAN
    /\ lxml_available \in BOOLEAN
    /\ accepts \in [elementpath : SUBSET Exprs, lxml : SUBSET Exprs]
    /\ expr = ""
    /\ raised = "none"
    /\ consulted = {}
    /\ pc = "start"
    /\ QuoteIdle /\ BuildIdle /\ ComposeIdle

ValidateXpath(e) ==
    /\ expr' = e
    /\ raised' = validate_xpath(e).raised
    /\ consulted' = validate_xpath(e).consulted
    /\ pc' = "done"
    /\ UNCHANGED <<elementpath_available, lxml_available, accepts,
                   quoteVars, buildVars, composeVars>>

PathValidate(p) ==
    /\ expr' = p.expr
    /\ raised' = Path_validate(p).raised
    /\ consulted' = Path_validate(p).consulted
    /\ pc' = "done"
    /\ UNCHANGED <<elementpath_available, lxml_available, accepts,
                   quoteVars, buildVars, composeVars>>

NextValidate ==
    \/ \E e \in Exprs : ValidateXpath(e)
    \/ \E e \in Exprs : PathValidate(Path(e))

SpecValidate == InitValidate /\ [][NextValidate]_vars

---------------------------------------------------------------------------
(* SpecBuild: one caller writing builder chains.  cur is the object the     *)
(* last call returned, call the last call with its receiver and arguments, *)
(* err what it raised.  A call that raises returns nothing: cur stays.     *)

AttrNames  == {"class", "*"}
Tokens     == {"ad", "Ad", "a-b", "it's"}
Flags      == {"", "i"}
StrValues  == {"Foo", "it's"}
NumValues  == {NaN, PosInf, NegInf, Float(25), Float(-5)}
PosValues  == {1, 12, -3}
CmpInputs  == Comparators \cup {"==", "<>"}
BoolExprs  == {"@checked"}

Values(f) ==
    CASE f.fn \in {"attr_str", "string_value"} -> StrValues
      [] f.fn = "attr_num"                     -> NumValues
      [] f.fn = "position_ops"                 -> PosValues
      [] f.fn = "bool_expr"                    -> BOOLEAN

SeqsUpTo(S, n) == UNION {[1..k -> S] : k \in 0..n}

SamplePreds == {AttrOps_exists(Pred_attr("id", FALSE)), Ops_eq(position_ops, 1)}
SamplePaths == {Node_any(STAR), Node_root(E("div"))}

InitBuild ==
    /\ cur = NoObject
    /\ call = NoCall
    /\ err = "none"
    /\ pc = "start"
    /\ QuoteIdle /\ ValidateIdle /\ ComposeIdle

Returns(op, recv, args, r) ==
    /\ call' = [args |-> args, op |-> op, recv |-> recv]
    /\ IF r.cls = "ValueError"
       THEN cur' = cur /\ err' = "ValueError"
       ELSE cur' = r /\ err' = "none"
    /\ UNCHANGED <<quoteVars, validateVars, composeVars, pc>>

(* static constructors and factory functions *)
PredAttr == \E n \in AttrNames, ci \in BOOLEAN :
    Returns("Pred.attr", NoObject, <<n, ci>>, Pred_attr(n, ci))
PredAttrHasToken == \E a \in AttrNames, tok \in Tokens, ci \in BOOLEAN :
    Returns("Pred.attr_has_token", NoObject, <<a, tok, ci>>, Pred_attr_has_token(a, tok, ci))
PredTextContains == \E needle \in Tokens, normalized \in BOOLEAN, ci \in BOOLEAN :
    Returns("Pred.text_contains", NoObject, <<needle, normalized, ci>>,
            Pred_text_contains(needle, normalized, ci))
PredTextMatches == \E pattern \in Tokens, flags \in Flags :
    Returns("Pred.text_matches", NoObject, <<pattern, flags>>,
            Pred_text_matches(pattern, flags))
PredUnion == \E preds \in SeqsUpTo(SamplePreds, MaxArgs) :
    Returns("Pred.union", NoObject, preds, Pred_union(preds))
PathUnion == \E paths \in SeqsUpTo(SamplePaths, MaxArgs) :
    Returns("Path.union", NoObject, paths, Path_union(paths))
AttrStr == \E n \in AttrNames, ci \in BOOLEAN :
    Returns("attr_str", NoObject, <<n, ci>>, attr_str(n, ci))
AttrNum == \E n \in AttrNames :
    Returns("attr_num", NoObject, <<n>>, attr_num(n))
PositionOps == Returns("position_ops", NoObject, <<>>, position_ops)
BoolExpr == \E e \in BoolExprs :
    Returns("bool_expr", NoObject, <<e>>, bool_expr(e))
StringValue == \E ci \in BOOLEAN :
    Returns("string_value", NoObject, <<ci>>, string_value(ci))

(* the example modules, imported *)
FindAdClasses  == Returns("find_ad_classes", NoObject, <<>>, ad_class_selector)
FindEmptySvgs  == Returns("find_empty_svgs", NoObject, <<>>, empty_svg_selector)
FindIdStr      == Returns("find_id_str", NoObject, <<>>, id_str_selector)

(* _AttrOps *)
AttrContains == cur.cls = "_AttrOps" /\
    Returns("AttrOps.contains", cur, <<>>, AttrOps_contains(cur))
AttrContainsTokens == cur.cls = "_AttrOps" /\
    Returns("AttrOps.contains_tokens", cur, <<>>, AttrOps_contains_tokens(cur))
AttrStartswith == cur.cls = "_AttrOps" /\
    Returns("AttrOps.startswith", cur, <<>>, AttrOps_startswith(cur))
AttrEndswith == cur.cls = "_AttrOps" /\
    Returns("AttrOps.endswith", cur, <<>>, AttrOps_endswith(cur))
AttrMatches == cur.cls = "_AttrOps" /\ \E flags \in Flags :
    Returns("AttrOps.matches", cur, <<flags>>, AttrOps_matches(cur, flags))
AttrNoneOf == cur.cls = "_AttrOps" /\ \E tokens \in SeqsUpTo(Tokens, MaxArgs) :
    Returns("AttrOps.none_of", cur, tokens, AttrOps_none_of(cur, tokens))
AttrHasName == cur.cls = "_AttrOps" /\
    Returns("AttrOps.has_name", cur, <<>>, AttrOps_has_name(cur))
AttrMissing == cur.cls = "_AttrOps" /\
    Returns("AttrOps.missing", cur, <<>>, AttrOps_missing(cur))
AttrExists == cur.cls = "_AttrOps" /\
    Returns("AttrOps.exists", cur, <<>>, AttrOps_exists(cur))
AttrAsStr == cur.cls = "_AttrOps" /\
    Returns("AttrOps.as_str", cur, <<>>, AttrOps_as_str(cur))
AttrAsNum == cur.cls = "_AttrOps" /\
    Returns("AttrOps.as_num", cur, <<>>, AttrOps_as_num(cur))

(* _AttrNameOps *)
NameContains == cur.cls = "_AttrNameOps" /\
    Returns("AttrNameOps.contains", cur, <<>>, AttrNameOps_contains(cur))
NameEquals == cur.cls = "_AttrNameOps" /\
    Returns("AttrNameOps.equals", cur, <<>>, AttrNameOps_equals(cur))
NameStartswith == cur.cls = "_AttrNameOps" /\
    Returns("AttrNameOps.startswith", cur, <<>>, AttrNameOps_startswith(cur))
NameEndswith == cur.cls = "_AttrNameOps" /\
    Returns("AttrNameOps.endswith", cur, <<>>, AttrNameOps_endswith(cur))
NameMatches == cur.cls = "_AttrNameOps" /\ \E flags \in Flags :
    Returns("AttrNameOps.matches", cur, <<flags>>, AttrNameOps_matches(cur, flags))
NameAnyOf == cur.cls = "_AttrNameOps" /\ \E names \in SeqsUpTo(Tokens, MaxArgs) :
    Returns("AttrNameOps.any_of", cur, names, AttrNameOps_any_of(cur, names))
NameAllOf == cur.cls = "_AttrNameOps" /\ \E names \in SeqsUpTo(Tokens, MaxArgs) :
    Returns("AttrNameOps.all_of", cur, names, AttrNameOps_all_of(cur, names))
NameNoneOf == cur.cls = "_AttrNameOps" /\ \E names \in SeqsUpTo(Tokens, MaxArgs) :
    Returns("AttrNameOps.none_of", cur, names, AttrNameOps_none_of(cur, names))

(* _SetBuilder *)
SetAnyOf == cur.cls = "_SetBuilder" /\ \E tokens \in SeqsUpTo(Tokens, MaxArgs) :
    Returns("SetBuilder.any_of", cur, tokens, SetBuilder_any_of(cur, tokens))
SetAllOf == cur.cls = "_SetBuilder" /\ \E tokens \in SeqsUpTo(Tokens, MaxArgs) :
    Returns("SetBuilder.all_of", cur, tokens, SetBuilder_all_of(cur, tokens))
SetNoneOf == cur.cls = "_SetBuilder" /\ \E tokens \in SeqsUpTo(Tokens, MaxArgs) :
    Returns("SetBuilder.none_of", cur, tokens, SetBuilder_none_of(cur, tokens))

(* Ops *)
OpsCmp == cur.cls = "Ops" /\ \E op \in CmpInputs, v \in Values(cur.to_lit) :
    Returns("Ops.cmp", cur, <<op, v>>, Ops_cmp(cur, op, v))
OpsEq == cur.cls = "Ops" /\ \E v \in Values(cur.to_lit) :
    Returns("Ops.eq", cur, <<v>>, Ops_eq(cur, v))
OpsNe == cur.cls = "Ops" /\ \E v \in Values(cur.to_lit) :
    Returns("Ops.ne", cur, <<v>>, Ops_ne(cur, v))
OpsLt == cur.cls = "Ops" /\ \E v \in Values(cur.to_lit) :
    Returns("Ops.lt", cur, <<v>>, Ops_lt(cur, v))
OpsLe == cur.cls = "Ops" /\ \E v \in Values(cur.to_lit) :
    Returns("Ops.le", cur, <<v>>, Ops_le(cur, v))
OpsGt == cur.cls = "Ops" /\ \E v \in Values(cur.to_lit) :
    Returns("Ops.gt", cur, <<v>>, Ops_gt(cur, v))
OpsGe == cur.cls = "Ops" /\ \E v \in Values(cur.to_lit) :
    Returns("Ops.ge", cur, <<v>>, Ops_ge(cur, v))
OpsBetween == cur.cls = "Ops" /\
    \E lo \in Values(cur.to_lit), hi \in Values(cur.to_lit),
       inclusive \in BOOLEAN \X BOOLEAN :
        Returns("Ops.between", cur, <<lo, hi, inclusive>>,
                Ops_between(cur, lo, hi, inclusive))
OpsIn == cur.cls = "Ops" /\ \E values \in SeqsUpTo(Values(cur.to_lit), MaxArgs) :
    Returns("Ops.in_", cur, values, Ops_in_(cur, values))
OpsNotIn == cur.cls = "Ops" /\ \E values \in SeqsUpTo(Values(cur.to_lit), MaxArgs) :
    Returns("Ops.not_in", cur, values, Ops_not_in(cur, values))

NextBuild ==
    \/ PredAttr \/ PredAttrHasToken \/ PredTextContains \/ PredTextMatches
    \/ PredUnion \/ PathUnion
    \/ AttrStr \/ AttrNum \/ PositionOps \/ BoolExpr \/ StringValue
    \/ FindAdClasses \/ FindEmptySvgs \/ FindIdStr
    \/ AttrContains \/ AttrContainsTokens \/ AttrStartswith \/ AttrEndswith
    \/ AttrMatches \/ AttrNoneOf \/ AttrHasName \/ AttrMissing \/ AttrExists
    \/ AttrAsStr \/ AttrAsNum
    \/ NameContains \/ NameEquals \/ NameStartswith \/ NameEndswith
    \/ NameMatches \/ NameAnyOf \/ NameAllOf \/ NameNoneOf
    \/ SetAnyOf \/ SetAllOf \/ SetNoneOf
    \/ OpsCmp \/ OpsEq \/ OpsNe \/ OpsLt \/ OpsLe \/ OpsGt \/ OpsGe
    \/ OpsBetween \/ OpsIn \/ OpsNotIn

SpecBuild == InitBuild /\ [][NextBuild]_vars

---------------------------------------------------------------------------
(* SpecCompose: callers composing Node, Path and Pred values.  heap holds   *)
(* every object created so far, the shared constants first; a call takes   *)
(* its operands from the heap and allocates its result.  The receiver of a *)
(* call is the most recent object of its class (STAR at first); a shared   *)
(* constant is the argument of Node's | (TEXT), child (COMMENT) and desc   *)
(* (NODE).                                                                 *)

Tags      == {"div"}
Positions == {2}

\* predicates a caller builds with the predicate builders
AtomPreds ==
    { AttrOps_exists(Pred_attr("id", FALSE)),
      SetBuilder_any_of(AttrOps_contains(Pred_attr("class", TRUE)), <<"Ad", "x">>),
      Ops_between(position_ops, 1, 12, <<TRUE, FALSE>>) }

\* a method that changes self and returns it, where the code builds a new object
Alloc_in_place(h, self, obj) ==
    IF self > 0 /\ h[self].cls = obj.cls
    THEN [h EXCEPT ![self] = obj]
    ELSE Append(h, obj)

\* the construction of a frozen dataclass instance: a new object, self (the
\* receiver, 0 for a function or static method) left as it is
Alloc(h, self, obj) == Append(h, obj)

\* the most recent object of a class, 0 if there is none
Latest(c) ==
    LET at == {i \in 1..Len(heap) : heap[i].cls = c}
    IN  IF at = {} THEN 0 ELSE CHOOSE i \in at : \A j \in at : j <= i

Extend(i, frag) == [frags |-> Append(hist[i].frags, frag), start |-> hist[i].start]

InitCompose ==
    /\ ComposeIdle
    /\ pc = "start"
    /\ QuoteIdle /\ ValidateIdle /\ BuildIdle

Allocates(op, self, args, r, h) ==
    /\ Len(heap) < Len(Shared) + MaxOps
    /\ heap' = Alloc(heap, self, r)
    /\ hist' = Append(hist, h)
    /\ call' = [args |-> args, op |-> op, recv |-> IF self > 0 THEN heap[self] ELSE NoObject]
    /\ UNCHANGED <<quoteVars, validateVars, cur, err, pc>>

MakeE == \E tag \in Tags :
    Allocates("E", 0, <<tag>>, E(tag), Origin(tag))

BuildPred == \E p \in AtomPreds :
    Allocates("Pred", 0, <<>>, p, Origin(compile(p)))

NodeAny == LET n == Latest("Node") IN
    /\ n > 0
    /\ Allocates("Node.any", n, <<>>, Node_any(heap[n]), Origin(compile(Node_any(heap[n]))))

NodeRoot == LET n == Latest("Node") IN
    /\ n > 0
    /\ Allocates("Node.root", n, <<>>, Node_root(heap[n]),
                 Origin(compile(Node_root(heap[n]))))

NodeCurrDesc == LET n == Latest("Node") IN
    /\ n > 0
    /\ Allocates("Node.curr_desc", n, <<>>, Node_curr_desc(heap[n]),
                 Origin(compile(Node_curr_desc(heap[n]))))

NodeOr == LET n == Latest("Node") IN
    /\ n > 0
    /\ Allocates("Node.or", n, <<TEXT>>, Node_or(heap[n], TEXT),
                 Origin(compile(Node_or(heap[n], TEXT))))

NodeWhere == LET n == Latest("Node") p == Latest("Pred") IN
    /\ p > 0
    /\ Allocates("Node.where", n, <<heap[p]>>, Node_where(heap[n], heap[p]),
                 Extend(n, "[" \o compile(heap[p]) \o "]"))

NodeChild == LET n == Latest("Node") IN
    /\ n > 0
    /\ Allocates("Node.child", n, <<COMMENT>>, Node_child(heap[n], COMMENT),
                 Extend(n, "/" \o compile(COMMENT)))

NodeDesc == LET n == Latest("Node") IN
    /\ n > 0
    /\ Allocates("Node.desc", n, <<NODE>>, Node_desc(heap[n], NODE),
                 Extend(n, "//" \o compile(NODE)))

PathWhere == LET p == Latest("Path") d == Latest("Pred") IN
    /\ p > 0 /\ d > 0
    /\ Allocates("Path.where", p, <<heap[d]>>, Path_where(heap[p], heap[d]),
                 Extend(p, "[" \o compile(heap[d]) \o "]"))

PathChild == LET p == Latest("Path") n == Latest("Node") IN
    /\ p > 0
    /\ Allocates("Path.child", p, <<heap[n]>>, Path_child(heap[p], heap[n]),
                 Extend(p, "/" \o compile(heap[n])))

PathDesc == LET p == Latest("Path") n == Latest("Node") IN
    /\ p > 0
    /\ Allocates("Path.desc", p, <<heap[n]>>, Path_desc(heap[p], heap[n]),
                 Extend(p, "//" \o compile(heap[n])))

PathCurrDesc == LET p == Latest("Path") IN
    /\ p > 0
    /\ Allocates("Path.curr_desc", p, <<>>, Path_curr_desc(heap[p]),
                 Origin(compile(Path_curr_desc(heap[p]))))

PathNth == LET p == Latest("Path") IN
    /\ p > 0
    /\ \E n \in Positions :
        Allocates("Path.nth", p, <<n>>, Path_nth(heap[p], n),
                  Extend(p, "[position() = " \o IntToStr(n) \o "]"))

PathFirst == LET p == Latest("Path") IN
    /\ p > 0
    /\ Allocates("Path.first", p, <<>>, Path_first(heap[p]),
                 Extend(p, "[position() = 1]"))

PathNeg == LET p == Latest("Path") IN
    /\ p > 0
    /\ Allocates("Path.neg", p, <<>>, Path_neg(heap[p]),
                 Origin(compile(Path_neg(heap[p]))))

PathUnionOf ==
    \E paths \in SeqsUpTo({heap[i] : i \in {Latest("Path")} \ {0}}, MaxArgs) :
        Allocates("Path.union", 0, paths, Path_union(paths),
                  Origin(compile(Path_union(paths))))

PredAnd == LET d == Latest("Pred") IN
    /\ d > 0
    /\ \E o \in {i \in 1..Len(heap) : heap[i].cls = "Pred"} :
        Allocates("Pred.and", d, <<heap[o]>>, Pred_and(heap[d], heap[o]),
                  Origin(compile(Pred_and(heap[d], heap[o]))))

PredOr == LET d == Latest("Pred") IN
    /\ d > 0
    /\ \E o \in {i \in 1..Len(heap) : heap[i].cls = "Pred"} :
        Allocates("Pred.or", d, <<heap[o]>>, Pred_or(heap[d], heap[o]),
                  Origin(compile(Pred_or(heap[d], heap[o]))))

PredNeg == LET d == Latest("Pred") IN
    /\ d > 0
    /\ Allocates("Pred.neg", d, <<>>, Pred_neg(heap[d]),
                 Origin(compile(Pred_neg(heap[d]))))

PredUnionOf ==
    \E preds \in SeqsUpTo({heap[i] : i \in {Latest("Pred")} \ {0}}, MaxArgs) :
        Allocates("Pred.union", 0, preds, Pred_union(preds),
                  Origin(compile(Pred_union(preds))))

NextCompose ==
    \/ MakeE \/ BuildPred
    \/ NodeAny \/ NodeRoot \/ NodeCurrDesc \/ NodeOr
    \/ NodeWhere \/ NodeChild \/ NodeDesc
    \/ PathWhere \/ PathChild \/ PathDesc \/ PathCurrDesc
    \/ PathNth \/ PathFirst \/ PathNeg \/ PathUnionOf
    \/ PredAnd \/ PredOr \/ PredNeg \/ PredUnionOf

SpecCompose == InitCompose /\ [][NextCompose]_vars

---------------------------------------------------------------------------
(* The value of an XPath 2.0 string literal, or of a concat(...) call on   *)
(* string literals.  Inside a literal the delimiter doubled stands for one *)
(* delimiter.  Bad is the result for text that is neither.                 *)

Bad == [next |-> 0, ok |-> FALSE, val |-> ""]

RECURSIVE ScanLiteral(_, _, _, _)
ScanLiteral(t, i, d, acc) ==
    IF i > Len(t) THEN Bad
    ELSE IF Char(t, i) = d
    THEN IF i + 1 <= Len(t) /\ Char(t, i + 1) = d
         THEN ScanLiteral(t, i + 2, d, acc \o d)
         ELSE [next |-> i + 1, ok |-> TRUE, val |-> acc]
    ELSE ScanLiteral(t, i + 1, d, acc \o Char(t, i))

ParseLiteral(t, i) ==
    IF i <= Len(t) /\ Char(t, i) \in {SQ, DQ}
    THEN ScanLiteral(t, i + 1, Char(t, i), "")
    ELSE Bad

\* the arguments from position i on, up to the closing parenthesis that ends t
RECURSIVE ParseArgs(_, _, _, _)
ParseArgs(t, i, acc, n) ==
    LET lit == ParseLiteral(t, i)
    IN  IF ~lit.ok \/ lit.next > Len(t) THEN Bad
        ELSE IF Char(t, lit.next) = ","
        THEN ParseArgs(t, lit.next + 1, acc \o lit.val, n + 1)
        ELSE IF Char(t, lit.next) = ")" /\ lit.next = Len(t) /\ n + 1 >= 2
        THEN [next |-> lit.next + 1, ok |-> TRUE, val |-> acc \o lit.val]
        ELSE Bad

Denoted(t) ==
    IF Len(t) >= 7 /\ SubSeq(t, 1, 7) = "concat("
    THEN ParseArgs(t, 8, "", 0)
    ELSE LET lit == ParseLiteral(t, 1)
         IN  IF lit.ok /\ lit.next = Len(t) + 1 THEN lit ELSE Bad

---------------------------------------------------------------------------
(* Claims *)

\* C1: for every string s, quote(s) is an XPath string literal that denotes
\* exactly s: s in single quotes when s has no single quote, s in double quotes
\* when it has a single quote and no double quote, and otherwise a concat(...)
\* call whose arguments' values joined give s back.
C1_QuoteDenotes ==
    pc = "done" =>
        /\ Denoted(q).ok
        /\ Denoted(q).val = s
        /\ ~HasChar(s, SQ) => q = SQ \o s \o SQ
        /\ (HasChar(s, SQ) /\ ~HasChar(s, DQ)) => q = DQ \o s \o DQ
        /\ (HasChar(s, SQ) /\ HasChar(s, DQ)) => SubSeq(q, 1, 7) = "concat("

\* C2: validate_xpath (and Path.validate) raises SyntaxError exactly when the
\* engine it selects rejects the expression; the selected engine is elementpath
\* if available, else lxml if available; no other engine is called, and with
\* no engine nothing is raised.
C2_ValidateSelectedEngine ==
    pc = "done" =>
        LET sel == IF elementpath_available THEN "elementpath"
                   ELSE IF lxml_available THEN "lxml" ELSE "none"
        IN  /\ raised \in {"none", "SyntaxError"}
            /\ (raised = "SyntaxError") <=> (sel # "none" /\ expr \notin accepts[sel])
            /\ consulted = {sel} \ {"none"}

\* both engines installed, the first rejects what the second accepts, and the
\* call raised
C2_Witness ==
    /\ pc = "done"
    /\ elementpath_available /\ lxml_available
    /\ expr = Malformed
    /\ expr \notin accepts.elementpath /\ expr \in accepts.lxml
    /\ raised = "SyntaxError"

---------------------------------------------------------------------------
(* Text helpers of the claims *)

\* the least position from i on where sep occurs in text, 0 if there is none
FindFrom(text, sep, i) ==
    LET at == {j \in i..(Len(text) - Len(sep) + 1) :
                    SubSeq(text, j, j + Len(sep) - 1) = sep}
    IN  IF at = {} THEN 0 ELSE CHOOSE j \in at : \A k \in at : j <= k

\* the pieces of text between the occurrences of sep, taken left to right
RECURSIVE SplitStrFrom(_, _, _)
SplitStrFrom(text, sep, i) ==
    LET j == FindFrom(text, sep, i)
    IN  IF j = 0 THEN <<SubSeq(text, i, Len(text))>>
        ELSE <<SubSeq(text, i, j - 1)>> \o SplitStrFrom(text, sep, j + Len(sep))

SplitStr(text, sep) == SplitStrFrom(text, sep, 1)

CountSub(text, sub) == Len(SplitStr(text, sub)) - 1

EndsWith(text, suffix) ==
    Len(text) >= Len(suffix)
        /\ SubSeq(text, Len(text) - Len(suffix) + 1, Len(text)) = suffix

StartsWith(text, prefix) ==
    Len(text) >= Len(prefix) /\ SubSeq(text, 1, Len(prefix)) = prefix

\* C3: every variadic builder called with no argument returns a boolean identity
\* and does not fail: any_of(), Ops.in_(), Pred.union() and Path.union() compile
\* to false(); all_of() and none_of() (on a Set Builder, the attribute builder's
\* none_of, the attribute-name builder) to true(); Ops.not_in() to not(false()).
C3_EmptyVariadic ==
    call.op \in {"SetBuilder.any_of", "AttrNameOps.any_of", "Ops.in_", "Pred.union",
                 "Path.union", "SetBuilder.all_of", "SetBuilder.none_of",
                 "AttrOps.none_of", "AttrNameOps.all_of", "AttrNameOps.none_of",
                 "Ops.not_in"}
        /\ call.args = <<>>
    => /\ err = "none"
       /\ cur.cls = (IF call.op = "Path.union" THEN "Path" ELSE "Pred")
       /\ compile(cur) =
            (IF call.op \in {"SetBuilder.any_of", "AttrNameOps.any_of", "Ops.in_",
                             "Pred.union", "Path.union"}
             THEN "false()"
             ELSE IF call.op = "Ops.not_in" THEN "not(false())"
             ELSE "true()")

\* the attribute builder's none_of() was called on a case-insensitive builder
C3_Witness ==
    /\ call.op = "AttrOps.none_of"
    /\ call.args = <<>>
    /\ call.recv.ci
    /\ cur = Pred("true()")

\* C4: Ops.cmp(op, value) raises ValueError if and only if op is not one of
\* = != < <= > >=, and then returns no Pred; for a valid op the Pred's text is
\* "<lhs> <op> <to_lit(value)>"; eq, ne, lt, le, gt, ge are cmp with = != < <= >
\* >= and never fail.
C4_CmpOperator ==
    /\ call.op = "Ops.cmp" =>
        LET op == call.args[1]
            v  == call.args[2]
        IN  /\ (err = "ValueError") <=> op \notin {"=", "!=", "<", "<=", ">", ">="}
            /\ err = "ValueError" => cur = call.recv
            /\ err # "ValueError" =>
                    /\ err = "none"
                    /\ cur = Pred(call.recv.lhs \o " " \o op \o " "
                                  \o to_lit(call.recv.to_lit, v))
    /\ call.op \in {"Ops.eq", "Ops.ne", "Ops.lt", "Ops.le", "Ops.gt", "Ops.ge"} =>
        LET op == CASE call.op = "Ops.eq" -> "="
                    [] call.op = "Ops.ne" -> "!="
                    [] call.op = "Ops.lt" -> "<"
                    [] call.op = "Ops.le" -> "<="
                    [] call.op = "Ops.gt" -> ">"
                    [] call.op = "Ops.ge" -> ">="
        IN  /\ err = "none"
            /\ cur = Pred(call.recv.lhs \o " " \o op \o " "
                          \o to_lit(call.recv.to_lit, call.args[1]))

\* cmp was called with an operator outside the six and raised
C4_Witness ==
    /\ call.op = "Ops.cmp"
    /\ call.args[1] = "=="
    /\ err = "ValueError"
    /\ cur.cls = "Ops"

\* C5: Pred.attr(n, case_insensitive=ci).has_name succeeds if and only if n is
\* "*"; otherwise it raises ValueError; the builder it returns carries ci.
C5_HasNameWildcardOnly ==
    call.op = "AttrOps.has_name" =>
        /\ call.recv.cls = "_AttrOps"
        /\ err \in {"none", "ValueError"}
        /\ (err = "none") <=> (call.recv.name = "*")
        /\ err = "none" => cur = AttrNameOps(call.recv.ci)
        /\ err = "ValueError" => cur = call.recv

\* has_name succeeded on the case-insensitive wildcard builder
C5_Witness ==
    /\ call.op = "AttrOps.has_name"
    /\ call.recv = Pred_attr("*", TRUE)
    /\ err = "none"
    /\ cur.cls = "_AttrNameOps"

AdClassesText ==
    "//*[contains(@class, 'ads') or contains(@class, 'ad') or "
    \o "contains(@class, 'advert') or contains(@class, 'advertisement') or "
    \o "contains(@class, 'sponsored') or contains(@class, 'promo') or "
    \o "contains(@class, 'affiliate') or contains(@class, 'tracking') or "
    \o "contains(@class, 'analytics')]"

IdStrText ==
    "//*[starts-with(@id, 'vue-') or starts-with(@id, 'angular-') or "
    \o "starts-with(@id, 'svelte-') or starts-with(@id, 'lit-') or "
    \o "starts-with(@id, 'astro-') or starts-with(@id, 'preact-') or "
    \o "starts-with(@id, 'solid-')]"

\* C8: on a Set Builder with tokens t1..tn, n > 0, any_of compiles to the n
\* per-token clauses in argument order joined by " or ", all_of to the same
\* clauses joined by " and ", none_of to "not(" + any_of's text + ")"; the
\* ad-classification selector holds exactly 9 contains(...) clauses joined by
\* or, one per keyword in order, the framework-id selector 7 starts-with(...).
C8_SetClauses ==
    /\ call.op \in {"SetBuilder.any_of", "SetBuilder.all_of", "SetBuilder.none_of"}
            /\ Len(call.args) > 0 =>
        LET clauses == [i \in 1..Len(call.args) |->
                            make_one(call.recv.make_one, call.args[i])]
            text    == compile(cur)
        IN  /\ err = "none" /\ cur.cls = "Pred"
            /\ call.op = "SetBuilder.any_of" => SplitStr(text, " or ") = clauses
            /\ call.op = "SetBuilder.all_of" => SplitStr(text, " and ") = clauses
            /\ call.op = "SetBuilder.none_of" =>
                    /\ StartsWith(text, "not(") /\ EndsWith(text, ")")
                    /\ SplitStr(SubSeq(text, 5, Len(text) - 1), " or ") = clauses
                    /\ text = "not(" \o compile(SetBuilder_any_of(call.recv, call.args))
                                \o ")"
    /\ call.op = "find_ad_classes" =>
        /\ compile(cur) = AdClassesText
        /\ CountSub(compile(cur), "contains(") = 9
        /\ CountSub(compile(cur), " or ") = 8
    /\ call.op = "find_id_str" =>
        /\ compile(cur) = IdStrText
        /\ CountSub(compile(cur), "starts-with(") = 7
        /\ CountSub(compile(cur), " or ") = 6

\* none_of was called on a Set Builder with two different tokens
C8_Witness ==
    /\ call.op = "SetBuilder.none_of"
    /\ Len(call.args) >= 2
    /\ call.args[1] # call.args[2]
    /\ cur.cls = "Pred"

ClaimSpecials ==
    {".", "^", "$", "|", "?", "*", "+", "(", ")", "[", "]", "{", "}", "-", "\\"}

RECURSIVE BackslashSpecials(_)
BackslashSpecials(tok) ==
    IF Len(tok) = 0 THEN ""
    ELSE (IF Char(tok, 1) \in ClaimSpecials THEN "\\" ELSE "") \o Char(tok, 1)
            \o BackslashSpecials(SubSeq(tok, 2, Len(tok)))

\* C9: for a token t without a regex-special character, Pred.attr_has_token(a,
\* t, ci) compiles to the text of Pred.attr(a, case_insensitive=ci)
\* .contains_tokens.any_of(t), with the 'i' argument exactly when ci; with a
\* special character the two differ: contains_tokens embeds t with every special
\* character behind a backslash, attr_has_token embeds t as it is.
C9_AttrHasTokenSameTechnique ==
    call.op = "Pred.attr_has_token" =>
        LET a   == call.args[1]
            tok == call.args[2]
            ci  == call.args[3]
            viaTokens == SetBuilder_any_of(AttrOps_contains_tokens(Pred_attr(a, ci)),
                                           <<tok>>)
            special   == \E i \in 1..Len(tok) : Char(tok, i) \in ClaimSpecials
            src       == "concat(' ', normalize-space(@" \o a \o "), ' ')"
            flag      == IF ci THEN ", 'i'" ELSE ""
        IN  /\ err = "none" /\ cur.cls = "Pred"
            /\ ~special => compile(cur) = compile(viaTokens)
            /\ special => compile(cur) # compile(viaTokens)
            /\ EndsWith(compile(cur), ", 'i')") <=> ci
            /\ EndsWith(compile(viaTokens), ", 'i')") <=> ci
            /\ compile(cur) =
                "matches(" \o src \o ", " \o quote("\\s" \o tok \o "\\s") \o flag \o ")"
            /\ compile(viaTokens) =
                "matches(" \o src \o ", "
                    \o quote("\\s" \o BackslashSpecials(tok) \o "\\s") \o flag \o ")"

\* attr_has_token was called, case-insensitive, with a token holding a special
\* character
C9_Witness ==
    /\ call.op = "Pred.attr_has_token"
    /\ call.args[2] = "a-b"
    /\ call.args[3] = TRUE
    /\ cur.cls = "Pred"

---------------------------------------------------------------------------
C7_PathComposition ==
    LET r == compile(heap[Len(heap)])
        e == compile(call.recv)
    IN  /\ call.op = "Node.any"       => r = "//" \o call.recv.test
        /\ call.op = "Node.root"      => r = "/" \o call.recv.test
        /\ call.op = "Path.where"     => r = e \o "[" \o compile(call.args[1]) \o "]"
        /\ call.op = "Path.child"     => r = e \o "/" \o compile(call.args[1])
        /\ call.op = "Path.desc"      => r = e \o "//" \o compile(call.args[1])
        /\ call.op = "Path.curr_desc" => r = ".//" \o e
        /\ call.op = "Path.nth"       =>
              r = e \o "[position() = " \o IntToStr(call.args[1]) \o "]"
        /\ call.op = "Path.first"     =>
              /\ heap[Len(heap)] = Path_nth(call.recv, 1)
              /\ r = e \o "[position() = 1]"
        /\ \A i \in 1..Len(heap) :
              /\ Len(hist) = Len(heap)
              /\ compile(heap[i]) = hist[i].start \o Join(hist[i].frags, "")
        /\ compile(Path_where(Node_any(E("div")), AttrOps_exists(Pred_attr("id", FALSE))))
              = "//div[@id]"

\* a path whose chain is three calls long, a desc and a where among them
C7_Witness ==
    LET h == hist[Len(hist)]
    IN  /\ heap[Len(heap)].cls = "Path"
        /\ Len(h.frags) = 3
        /\ \E i \in 1..3 : StartsWith(h.frags[i], "//")
        /\ \E i \in 1..3 : StartsWith(h.frags[i], "[")
        /\ call.op \in {"Path.where", "Path.desc", "Path.nth"}

Opening == {"(", "["}
Closing == {")", "]"}
Brackets == Opening \cup Closing

\* the bracket that closes at position j of str has its own opener on top of
\* the stack of brackets still open; at the end nothing is left open
RECURSIVE Nested(_, _, _, _)
Nested(str, at, from, open) ==
    LET rest == {j \in at : j >= from}
    IN  IF rest = {} THEN open = <<>>
        ELSE LET j == CHOOSE k \in rest : \A m \in rest : k <= m
                 c == Char(str, j)
             IN  IF c \in Opening
                 THEN Nested(str, at, j + 1, <<c>> \o open)
                 ELSE /\ open # <<>>
                      /\ Head(open) = (IF c = ")" THEN "(" ELSE "[")
                      /\ Nested(str, at, j + 1, Tail(open))

Balanced(str) ==
    Nested(str, {j \in 1..Len(str) : Char(str, j) \in Brackets}, 1, <<>>)

\* C10: composition preserves well-formedness: every Path and Pred built from
\* the shortcut constants and E(tag) by any / root / where / child / desc /
\* curr_desc / nth / first / neg / union / and / or and the predicate builders,
\* from tags, names and tokens free of brackets, parentheses and quotes, has
\* balanced, properly nested ( ) and [ ].
C10_BalancedBrackets ==
    \A i \in 1..Len(heap) :
        heap[i].cls \in {"Path", "Pred"} => Balanced(compile(heap[i]))

\* a path filtered by a negated predicate: brackets of both kinds, nested
C10_Witness ==
    LET r == compile(heap[Len(heap)])
    IN  /\ call.op \in {"Node.where", "Path.where"}
        /\ CountSub(r, "[not(") >= 1
        /\ CountSub(r, "(") >= 3
        /\ Balanced(r)


===========================================================================
